---- MODULE Spec2Model ----
(***************************************************************************)
(* Decision & Execution Engine of alpaca-trader: the execution guard       *)
(* (OrderExecutor.execute_signal), the signal aggregator                   *)
(* (evaluate_signals), the bar fetch (fetch_bars) and one cycle of the     *)
(* cycle runners (run_scan and the catching loop of _check_signals and     *)
(* _process_user) over an abstract brokerage, and the schedulers.           *)
(*                                                                         *)
(* Units: money is in cents (equity "10.27" is 1027), share quantities are *)
(* in 1/10000 share (qty "15" is 150000), position_size_pct is a whole     *)
(* percentage.  Python's round(x, n) is modelled on the exact quotient as  *)
(* round-half-to-even; the inputs below never hit an exact tie, so the     *)
(* binary floating-point result and the exact one coincide on them.        *)
(***************************************************************************)
EXTENDS Integers, Sequences, FiniteSets, TLC

(* ------------------------------ bounds --------------------------------- *)
NumSymbols == 2
MaxMaxPositions == 2
MaxWatch == 2
MaxMinAgree == 4
MaxTicks == 2
NumUsers == 2
HeldQty == 150000

Symbols == 1..NumSymbols
QtyChoices == {-HeldQty, 0, HeldQty}
EquityChoices == {1027, 10000000}
PctChoices == {5, 33}

(* ------------------------------ values --------------------------------- *)
None == [none |-> TRUE]
Absent == -1

\* signals.py: class Action(Enum)
BUY == "buy"
SELL == "sell"
HOLD == "hold"
Action == {BUY, SELL, HOLD}

\* executor.py: TIME_IN_FORCE_MAP
TIME_IN_FORCE_MAP == [day |-> "DAY", gtc |-> "GTC", ioc |-> "IOC"]

NoError == "none"

\* signals.py: @dataclass Signal -- four fields, and no others
Signal(symbol, action, strength, details) ==
    [symbol |-> symbol, action |-> action, strength |-> strength, details |-> details]

\* Python attribute lookup: reading a missing attribute raises AttributeError
HasAttr(obj, name) == name \in DOMAIN obj

Abs(n) == IF n < 0 THEN -n ELSE n

\* round(n / d) for n >= 0, d > 0, ties to even (Python's round)
RoundHalfEven(n, d) ==
    LET q == n \div d
        r == n % d
    IN  IF 2 * r < d THEN q
        ELSE IF 2 * r > d THEN q + 1
        ELSE IF q % 2 = 0 THEN q ELSE q + 1

(* --------------------------- brokerage reads --------------------------- *)
\* client.py: get_positions -- all open positions
get_positions(positions) == {s \in Symbols : positions[s] # 0}

\* client.py: get_position -- the position in symbol, or None if not held
get_position(positions, symbol) ==
    IF positions[symbol] # 0
    THEN [symbol |-> symbol, qty |-> positions[symbol]]
    ELSE None

(* --------------------------- order requests ---------------------------- *)
MarketOrderRequest(symbol, notional, qty, side, time_in_force) ==
    [type |-> "market", symbol |-> symbol, notional |-> notional, qty |-> qty,
     side |-> side, time_in_force |-> time_in_force,
     limit_price |-> Absent, extended_hours |-> FALSE]

LimitOrderRequest(symbol, qty, side, time_in_force, limit_price, extended_hours) ==
    [type |-> "limit", symbol |-> symbol, notional |-> Absent, qty |-> qty,
     side |-> side, time_in_force |-> time_in_force,
     limit_price |-> limit_price, extended_hours |-> extended_hours]

(* ------------------------ OrderExecutor.execute_signal ----------------- *)
Result(ret, calls, raised, order_request) ==
    [ret |-> ret, calls |-> calls, raised |-> raised, order_request |-> order_request]

\* mutant of hold_returns: the HOLD check is missing
hold_returns_never(signal) == FALSE

\* "if signal.action == Action.HOLD: return None", before any brokerage call
hold_returns(signal) == signal.action = HOLD

\* the three brokerage reads that follow the HOLD check
account_reads == <<"get_account", "get_positions", "get_position">>

\* mutant of guard_rejects: the position limit is not looked at
guard_rejects_no_limit(signal, execution, positions, existing_position) ==
    \/ signal.action = BUY /\ existing_position # None
    \/ /\ signal.action = SELL /\ existing_position = None
       /\ ~execution.allow_short

\* mutant of guard_rejects: the position limit is compared with > for >=
guard_rejects_off_by_one(signal, execution, positions, existing_position) ==
    \/ /\ signal.action = BUY /\ existing_position = None
       /\ Cardinality(positions) > execution.max_positions
    \/ signal.action = BUY /\ existing_position # None
    \/ /\ signal.action = SELL /\ existing_position = None
       /\ ~execution.allow_short

\* guards "max positions", "already holding", "nothing to sell":
\* TRUE when one of them returns None
guard_rejects(signal, execution, positions, existing_position) ==
    \/ /\ signal.action = BUY /\ existing_position = None
       /\ Cardinality(positions) >= execution.max_positions
    \/ signal.action = BUY /\ existing_position # None
    \/ /\ signal.action = SELL /\ existing_position = None
       /\ ~execution.allow_short

\* mutant of notional_of: the notional is truncated to the cent, not rounded
notional_of_truncated(equity, position_size_pct) ==
    (equity * position_size_pct) \div 100

\* round(equity * (position_size_pct / 100.0), 2), in cents
notional_of(equity, position_size_pct) ==
    RoundHalfEven(equity * position_size_pct, 100)

\* round(float(signal.price), 2): a price is held in tenths of a cent
limit_price_of(price) == RoundHalfEven(price, 10)

\* round(notional / limit_price, 4), in 1/10000 share
qty_of(notional, limit_price) ==
    (notional \div limit_price) * 10000
        + RoundHalfEven((notional % limit_price) * 10000, limit_price)

\* "Calculate order parameters": the order request and its description
order_parameters(signal, execution, equity, existing_position) ==
    LET tif == TIME_IN_FORCE_MAP[execution.time_in_force]
        extended_hours == execution.extended_hours
        notional == notional_of(equity, execution.position_size_pct)
    IN  IF signal.action = BUY THEN
            IF extended_hours THEN
                LET limit_price == limit_price_of(signal.price)
                    qty == qty_of(notional, limit_price)
                IN  [request |-> LimitOrderRequest(signal.symbol, qty, BUY, "DAY",
                                                   limit_price, TRUE),
                     desc |-> <<"BUY", signal.symbol, "qty", qty, "limit", limit_price>>]
            ELSE
                [request |-> MarketOrderRequest(signal.symbol, notional, Absent, BUY, tif),
                 desc |-> <<"BUY", signal.symbol, "notional", notional>>]
        ELSE IF signal.action = SELL /\ existing_position # None THEN
            LET qty == Abs(existing_position.qty)
            IN  IF extended_hours THEN
                    LET limit_price == limit_price_of(signal.price)
                    IN  [request |-> LimitOrderRequest(signal.symbol, qty, SELL, "DAY",
                                                       limit_price, TRUE),
                         desc |-> <<"SELL", signal.symbol, "qty", qty, "limit", limit_price>>]
                ELSE
                    [request |-> MarketOrderRequest(signal.symbol, Absent, qty, SELL, tif),
                     desc |-> <<"SELL", signal.symbol, "qty", qty>>]
        ELSE
            IF extended_hours THEN
                LET limit_price == limit_price_of(signal.price)
                    qty == qty_of(notional, limit_price)
                IN  [request |-> LimitOrderRequest(signal.symbol, qty, SELL, "DAY",
                                                   limit_price, TRUE),
                     desc |-> <<"SHORT SELL", signal.symbol, "qty", qty, "limit", limit_price>>]
            ELSE
                [request |-> MarketOrderRequest(signal.symbol, notional, Absent, SELL, tif),
                 desc |-> <<"SHORT SELL", signal.symbol, "notional", notional>>]

\* mutant of submit_stage: the dry-run return is missing
submit_stage_ignoring_dry_run(signal, params, dry_run, submit_ok, reads) ==
    IF submit_ok THEN
        Result([order_id |-> "id", symbol |-> signal.symbol,
                side |-> params.request.side, status |-> "accepted"],
               Append(reads, "submit_order"), NoError, params.request)
    ELSE
        Result(None, Append(reads, "submit_order"), "APIError", params.request)

\* mutant of submit_stage: a submission that raised is tried once more
submit_stage_retrying(signal, params, dry_run, submit_ok, reads) ==
    IF dry_run THEN
        Result([dry_run |-> TRUE, symbol |-> signal.symbol, description |-> params.desc],
               reads, NoError, params.request)
    ELSE IF submit_ok THEN
        Result([order_id |-> "id", symbol |-> signal.symbol,
                side |-> params.request.side, status |-> "accepted"],
               Append(reads, "submit_order"), NoError, params.request)
    ELSE
        Result(None, reads \o <<"submit_order", "submit_order">>, "APIError",
               params.request)

\* "Dry run" / "Submit order": submit_ok is the brokerage's answer to
\* submit_order (FALSE: it raises)
submit_stage(signal, params, dry_run, submit_ok, reads) ==
    IF dry_run THEN
        Result([dry_run |-> TRUE, symbol |-> signal.symbol, description |-> params.desc],
               reads, NoError, params.request)
    ELSE IF submit_ok THEN
        Result([order_id |-> "id", symbol |-> signal.symbol,
                side |-> params.request.side, status |-> "accepted"],
               Append(reads, "submit_order"), NoError, params.request)
    ELSE
        Result(None, Append(reads, "submit_order"), "APIError", params.request)

execute_signal(signal, dry_run, execution, equity, positions_now, submit_ok) ==
    LET reads == account_reads
        positions == get_positions(positions_now)
        existing_position == get_position(positions_now, signal.symbol)
    IN  IF hold_returns(signal) THEN Result(None, <<>>, NoError, None)
        ELSE IF guard_rejects(signal, execution, positions, existing_position)
            THEN Result(None, reads, NoError, None)
        ELSE IF execution.time_in_force \notin DOMAIN TIME_IN_FORCE_MAP
            THEN Result(None, reads, "KeyError", None)
        ELSE IF execution.extended_hours /\ ~HasAttr(signal, "price")
            THEN Result(None, reads, "AttributeError", None)
        ELSE IF execution.extended_hours /\ (signal.price = Absent \/ signal.price = 0)
            THEN Result(None, reads, NoError, None)
        ELSE submit_stage(signal,
                          order_parameters(signal, execution, equity, existing_position),
                          dry_run, submit_ok, reads)

(* ------------------------------ evaluate_signals ----------------------- *)
VoteNone == "None"
RawVotes == {"buy", "sell", "NaN", VoteNone}
IndicatorColumns == {"rsi_signal", "sma_signal", "macd_signal", "bb_signal"}

\* mutant of signal_columns: every indicator's column, enabled or not
signal_columns_of_all(settings) ==
    <<"rsi_signal", "sma_signal", "macd_signal", "bb_signal">>

\* "Collect signals from each enabled indicator"
signal_columns(settings) ==
    (IF settings.rsi.enabled THEN <<"rsi_signal">> ELSE <<>>) \o
    (IF settings.sma.enabled THEN <<"sma_signal">> ELSE <<>>) \o
    (IF settings.macd.enabled THEN <<"macd_signal">> ELSE <<>>) \o
    (IF settings.bollinger.enabled THEN <<"bb_signal">> ELSE <<>>)

\* val if pd.notna(val) else None
notna_or_none(val) == IF val \in {"NaN", VoteNone} THEN VoteNone ELSE val

Max(a, b) == IF a >= b THEN a ELSE b

\* mutant of frame_is_empty: the empty history is not noticed
frame_is_empty_never(df) == FALSE

\* "if df.empty"
frame_is_empty(df) == df.empty

\* mutant of unanimous_action: abstaining indicators are overlooked
unanimous_action_of_voters(buy_count, sell_count, total_enabled) ==
    IF buy_count > 0 /\ sell_count = 0 THEN BUY
    ELSE IF sell_count > 0 /\ buy_count = 0 THEN SELL
    ELSE HOLD

\* mode == "unanimous"
unanimous_action(buy_count, sell_count, total_enabled) ==
    IF buy_count = total_enabled THEN BUY
    ELSE IF sell_count = total_enabled THEN SELL
    ELSE HOLD

\* mutant of majority_action: min_agree alone decides, the sides are not
\* compared
majority_action_threshold_only(buy_count, sell_count, min_agree) ==
    IF buy_count >= min_agree THEN BUY
    ELSE IF sell_count >= min_agree THEN SELL
    ELSE HOLD

\* mutant of majority_action: a tie goes to the buyers
majority_action_tie_buys(buy_count, sell_count, min_agree) ==
    IF buy_count >= min_agree /\ buy_count >= sell_count THEN BUY
    ELSE IF sell_count >= min_agree /\ sell_count > buy_count THEN SELL
    ELSE HOLD

\* mode == "majority"
majority_action(buy_count, sell_count, min_agree) ==
    IF buy_count >= min_agree /\ buy_count > sell_count THEN BUY
    ELSE IF sell_count >= min_agree /\ sell_count > buy_count THEN SELL
    ELSE HOLD

\* mutant of any_action: the larger side wins a conflict
any_action_larger_side(buy_count, sell_count) ==
    IF buy_count > sell_count THEN BUY
    ELSE IF sell_count > buy_count THEN SELL
    ELSE HOLD

\* mode == "any"
any_action(buy_count, sell_count) ==
    IF buy_count > 0 /\ sell_count = 0 THEN BUY
    ELSE IF sell_count > 0 /\ buy_count = 0 THEN SELL
    ELSE HOLD

\* df is [empty, latest]: latest maps every vote column to its raw value in
\* the last row (latest.get(col) of a column that is not there is None).
\* strength is the fraction <<numerator, denominator>>.
evaluate_signals(df, symbol, settings) ==
    IF frame_is_empty(df) THEN Signal(symbol, HOLD, <<0, 1>>, <<>>)
    ELSE
        LET cols == signal_columns(settings)
            colset == {cols[i] : i \in 1..Len(cols)}
            indicator_signals == [c \in colset |-> notna_or_none(df.latest[c])]
        IN  IF colset = {} THEN Signal(symbol, HOLD, <<0, 1>>, <<>>)
            ELSE
                LET buy_count == Cardinality({c \in colset : indicator_signals[c] = "buy"})
                    sell_count == Cardinality({c \in colset : indicator_signals[c] = "sell"})
                    total_enabled == Cardinality(colset)
                    mode == settings.signal.mode
                    min_agree == settings.signal.min_agree
                    action ==
                        IF mode = "unanimous"
                            THEN unanimous_action(buy_count, sell_count, total_enabled)
                        ELSE IF mode = "majority"
                            THEN majority_action(buy_count, sell_count, min_agree)
                        ELSE IF mode = "any"
                            THEN any_action(buy_count, sell_count)
                        ELSE HOLD
                    strength == IF total_enabled > 0
                                THEN <<Max(buy_count, sell_count), total_enabled>>
                                ELSE <<0, 1>>
                IN  Signal(symbol, action, strength, indicator_signals)

(* ------------------------------ fetch_bars ----------------------------- *)
\* the keys of the returned dict, in insertion order: one key per symbol
\* the data source has bars for, however often the symbol is listed
RECURSIVE fetch_loop(_, _, _)
fetch_loop(symbols, available, result) ==
    IF symbols = <<>> THEN result
    ELSE
        LET symbol == Head(symbols)
            present == \E i \in 1..Len(result) : result[i] = symbol
        IN  fetch_loop(Tail(symbols), available,
                       IF symbol \in available /\ ~present
                       THEN Append(result, symbol) ELSE result)

\* mutant of fetch_bars: one entry per listed symbol, duplicates kept
fetch_bars_keeping_duplicates(symbols, available) ==
    SelectSeq(symbols, LAMBDA symbol : symbol \in available)

fetch_bars(symbols, available) == fetch_loop(symbols, available, <<>>)

(* ------------------------------ state ---------------------------------- *)
VARIABLES
    settings,    \* Settings: indicators enabled, signal, execution (under
                 \* AutoTrader: the account's row of the settings table)
    deployment,  \* the entry point and its flags: runner, execute, dry_run
                 \* (under a scheduler also raw, the configuration asked for)
    relisted,    \* this cycle: the symbols the watchlist lists more than once
    equity,      \* brokerage: account.equity
    positions,   \* brokerage: signed quantity held per symbol (0: none)
    orders,      \* brokerage: the accepted order requests still open, in order
    pc,          \* cycle runner: idle, evaluating, done (returned), aborted (raised)
    bars,        \* cycle runner: keys of the dict fetch_bars returned
    idx,         \* cycle runner: position of the loop in bars
    attempts,    \* this cycle: submit_order calls per symbol
    failed,      \* this cycle: symbols whose submit_order raised
    errors,      \* this cycle: symbols whose processing raised and was caught
    lastCall,    \* the latest execute_signal invocation and its outcome
    evaluation,  \* the latest evaluate_signals call: frame and Signal
    entry,       \* scheduler: the entry point that owns it
    schedState,  \* scheduler: off, created, running, stopped, crashed
    ticks,       \* scheduler: cadence ticks fired so far
    starts,      \* scheduler: invocations of the scheduled job so far
    tickPc,      \* the job of the latest tick: idle, users, done, query_failed
    tickLog,     \* the job of the latest tick: status of each account cycle
    lastRun,     \* the latest account cycle: its environment and result
    flight,      \* threads: the statement start() has reached, whether the job
                 \* was added, the cycle of the main thread and the job
                 \* instances of the worker threads
    stopRequest  \* the first stop request: the cycles started when it came

vars == <<settings, deployment, relisted, equity, positions, orders,
          pc, bars, idx, attempts, failed, errors, lastCall, evaluation,
          entry, schedState, ticks, starts, tickPc, tickLog, lastRun,
          flight, stopRequest>>

brokerageVars == <<equity, positions, orders>>
cycleVars == <<pc, bars, idx, attempts, failed, errors, relisted>>
configVars == <<settings, deployment>>
schedVars == <<entry, schedState, ticks, starts, tickPc, tickLog, lastRun>>
flightVars == <<flight, stopRequest>>

ExecutionConfigs ==
    [order_type : {"market"},
     time_in_force : DOMAIN TIME_IN_FORCE_MAP,
     position_size_pct : PctChoices,
     max_positions : 0..MaxMaxPositions,
     allow_short : BOOLEAN,
     extended_hours : BOOLEAN]

Enabled(b) == [enabled |-> b]

\* conftest.py default_settings: all four indicators, majority of 2
Settings(signal, execution) ==
    [rsi |-> Enabled(TRUE), sma |-> Enabled(TRUE), macd |-> Enabled(TRUE),
     bollinger |-> Enabled(TRUE), signal |-> signal, execution |-> execution]

\* the cycles run with one indicator enabled
CycleSettings(signal, execution) ==
    [rsi |-> Enabled(TRUE), sma |-> Enabled(FALSE), macd |-> Enabled(FALSE),
     bollinger |-> Enabled(FALSE), signal |-> signal, execution |-> execution]

DefaultSignal == [mode |-> "majority", min_agree |-> 2]
CycleSignal == [mode |-> "majority", min_agree |-> 1]

NoDeployment == [runner |-> "none", execute |-> FALSE, dry_run |-> FALSE]

ZeroAttempts == [s \in Symbols |-> 0]

\* no thread is inside start() or a cycle, no job was added
\* no cycle: none was started, or the last one has ended
NoCycle == [stage |-> "none", symbol |-> 0]

NoFlight == [main_pc |-> 0, job_added |-> FALSE, main |-> NoCycle, workers |-> <<>>]

\* no scheduler was built
NoScheduler ==
    /\ entry = "none" /\ schedState = "off"
    /\ ticks = 0 /\ starts = 0
    /\ tickPc = "idle" /\ tickLog = <<>> /\ lastRun = None
    /\ flight = NoFlight /\ stopRequest = None

IdleCycle ==
    /\ pc = "idle" /\ bars = <<>> /\ idx = 0
    /\ attempts = ZeroAttempts /\ failed = {} /\ errors = {} /\ relisted = {}

\* every policy, every account the bounds allow; no runner
Init ==
    /\ settings \in {Settings(DefaultSignal, e) : e \in ExecutionConfigs}
    /\ deployment = NoDeployment
    /\ equity \in EquityChoices
    /\ positions \in [Symbols -> QtyChoices]
    /\ orders = <<>>
    /\ IdleCycle
    /\ lastCall = None
    /\ evaluation = None
    /\ NoScheduler

Call(signal, dry_run, res) ==
    [signal |-> signal, dry_run |-> dry_run,
     equity |-> equity, held |-> positions[signal.symbol],
     open |-> Cardinality(get_positions(positions)),
     orders_before |-> Len(orders), res |-> res]

RECURSIVE NumSubmits(_)
NumSubmits(calls) ==
    IF calls = <<>> THEN 0
    ELSE (IF Head(calls) = "submit_order" THEN 1 ELSE 0) + NumSubmits(Tail(calls))

Submitted(res) == NumSubmits(res.calls) > 0

Accepted(res) == Submitted(res) /\ res.raised = NoError

\* what the brokerage keeps of an invocation
OrdersAfter(res) ==
    IF Accepted(res) THEN Append(orders, res.order_request) ELSE orders

\* a direct call of OrderExecutor.execute_signal on a fresh executor, as each
\* unit test makes it
ExecuteSignal ==
    /\ lastCall = None
    /\ \E s \in Symbols, a \in Action, dr \in BOOLEAN, ok \in BOOLEAN :
        LET signal == Signal(s, a, <<1, 2>>, <<>>)
            res == execute_signal(signal, dr, settings.execution, equity, positions, ok)
        IN  /\ lastCall' = Call(signal, dr, res)
            /\ orders' = OrdersAfter(res)
    /\ UNCHANGED <<equity, positions, evaluation>>
    /\ UNCHANGED cycleVars
    /\ UNCHANGED configVars
    /\ UNCHANGED flightVars
    /\ UNCHANGED schedVars

Next == ExecuteSignal

Spec == Init /\ [][Next]_vars

(* ------------------------------ cycle runners -------------------------- *)
\* main.py scan/trade/schedule and dashboard.py: run_scan(..., dry_run,
\* execute); headless_trader.py: _check_signals, whose loop catches per
\* symbol as the loop of AutoTrader._process_user does, execute being
\* TRADING_ENABLED.  Both take their settings from load_settings, which
\* never sets extended_hours.
Deployments ==
    {[runner |-> "run_scan", execute |-> FALSE, dry_run |-> FALSE]}
        \cup [runner : {"run_scan"}, execute : {TRUE}, dry_run : BOOLEAN]
        \cup [runner : {"check_signals"}, execute : BOOLEAN, dry_run : {FALSE}]

CycleExecutionConfigs ==
    [order_type : {"market"},
     time_in_force : {"gtc"},
     position_size_pct : {5},
     max_positions : 0..MaxMaxPositions,
     allow_short : BOOLEAN,
     extended_hours : {FALSE}]

Watchlists == UNION {[1..n -> Symbols] : n \in 0..MaxWatch}

\* the symbols a watchlist lists more than once
ListedTwice(symbols) ==
    {s \in Symbols : \E i, j \in 1..Len(symbols) :
                        i < j /\ symbols[i] = s /\ symbols[j] = s}

InitCycle ==
    /\ settings \in {CycleSettings(CycleSignal, e) : e \in CycleExecutionConfigs}
    /\ deployment \in Deployments
    /\ equity = 10000000
    /\ positions \in [Symbols -> {0, HeldQty}]
    /\ orders = <<>>
    /\ IdleCycle
    /\ lastCall = None
    /\ evaluation = None
    /\ NoScheduler

\* the last rows compute_all can hand over: a vote per enabled indicator,
\* no column for a disabled one
Frames(st) ==
    LET votes(indicator) == IF indicator.enabled
                            THEN {"buy", "sell", VoteNone} ELSE {VoteNone}
    IN  {[rsi_signal |-> r, sma_signal |-> s, macd_signal |-> m, bb_signal |-> b] :
            r \in votes(st.rsi), s \in votes(st.sma),
            m \in votes(st.macd), b \in votes(st.bollinger)}

\* the runner is handed its symbols and calls fetch_bars, then the loop
\* starts; the fetch may raise, and the exception ends the cycle
StartCycle ==
    /\ pc = "idle"
    /\ UNCHANGED <<attempts, failed, errors, lastCall, evaluation>>
    /\ \E watchlist \in Watchlists :
        /\ relisted' = ListedTwice(watchlist)
        /\ IF deployment.runner = "check_signals" /\ watchlist = <<>>
           THEN pc' = "done" /\ bars' = <<>> /\ idx' = 0
           ELSE \E fetch_ok \in BOOLEAN :
                   IF ~fetch_ok
                   THEN pc' = "aborted" /\ bars' = <<>> /\ idx' = 0
                   ELSE \E available \in SUBSET Symbols :
                           /\ bars' = fetch_bars(watchlist, available)
                           /\ idx' = 1
                           /\ pc' = IF bars' = <<>> THEN "done" ELSE "evaluating"
    /\ UNCHANGED brokerageVars
    /\ UNCHANGED configVars
    /\ UNCHANGED flightVars
    /\ UNCHANGED schedVars

\* mutant of symbol_step: the account is read once per cycle, so a position
\* opened by an order of this cycle is not seen by the later invocations
symbol_step_cached_account(dep, symbol, df, compute_ok, submit_ok, st, eq, pos) ==
    IF ~compute_ok THEN [signal |-> None, res |-> None, raised |-> "compute_all"]
    ELSE
        LET signal == evaluate_signals(df, symbol, st)
            cached == [s \in Symbols |-> IF attempts[s] > 0 THEN 0 ELSE pos[s]]
            invoke == IF dep.runner = "run_scan"
                      THEN dep.execute /\ signal.action # HOLD
                      ELSE dep.execute /\ (signal.action = BUY \/ signal.action = SELL)
        IN  IF invoke
            THEN LET res == execute_signal(signal, dep.dry_run, st.execution, eq, cached,
                                           submit_ok)
                 IN  [signal |-> signal, res |-> res, raised |-> res.raised]
            ELSE [signal |-> signal, res |-> None, raised |-> NoError]

\* mutant of symbol_step: the headless loop does not look at trading_enabled
symbol_step_trading_unchecked(dep, symbol, df, compute_ok, submit_ok, st, eq, pos) ==
    IF ~compute_ok THEN [signal |-> None, res |-> None, raised |-> "compute_all"]
    ELSE
        LET signal == evaluate_signals(df, symbol, st)
            invoke == IF dep.runner = "run_scan"
                      THEN dep.execute /\ signal.action # HOLD
                      ELSE signal.action = BUY \/ signal.action = SELL
        IN  IF invoke
            THEN LET res == execute_signal(signal, dep.dry_run, st.execution, eq, pos,
                                           submit_ok)
                 IN  [signal |-> signal, res |-> res, raised |-> res.raised]
            ELSE [signal |-> signal, res |-> None, raised |-> NoError]

\* mutant of symbol_step: the execute flag of the runner is not looked at
symbol_step_always_executing(dep, symbol, df, compute_ok, submit_ok, st, eq, pos) ==
    IF ~compute_ok THEN [signal |-> None, res |-> None, raised |-> "compute_all"]
    ELSE
        LET signal == evaluate_signals(df, symbol, st)
        IN  IF signal.action # HOLD
            THEN LET res == execute_signal(signal, dep.dry_run, st.execution, eq, pos,
                                           submit_ok)
                 IN  [signal |-> signal, res |-> res, raised |-> res.raised]
            ELSE [signal |-> signal, res |-> None, raised |-> NoError]

\* one iteration of "for symbol, df in bars.items()": the signal, the
\* execute_signal invocation if the runner makes one, and what was raised
symbol_step(dep, symbol, df, compute_ok, submit_ok, st, eq, pos) ==
    IF ~compute_ok THEN [signal |-> None, res |-> None, raised |-> "compute_all"]
    ELSE
        LET signal == evaluate_signals(df, symbol, st)
            invoke == IF dep.runner = "run_scan"
                      THEN dep.execute /\ signal.action # HOLD
                      ELSE dep.execute /\ (signal.action = BUY \/ signal.action = SELL)
        IN  IF invoke
            THEN LET res == execute_signal(signal, dep.dry_run, st.execution, eq, pos,
                                           submit_ok)
                 IN  [signal |-> signal, res |-> res, raised |-> res.raised]
            ELSE [signal |-> signal, res |-> None, raised |-> NoError]

\* run_scan lets an exception out of the loop; _check_signals catches it
\* per symbol and goes on
EvaluateSymbol ==
    /\ pc = "evaluating" /\ idx <= Len(bars)
    /\ \E latest \in Frames(settings), compute_ok \in BOOLEAN, submit_ok \in BOOLEAN :
        LET symbol == bars[idx]
            df == [empty |-> FALSE, latest |-> latest]
            step == symbol_step(deployment, symbol, df, compute_ok, submit_ok,
                                settings, equity, positions)
            called == step.res # None
            raised == step.raised # NoError
        IN  /\ lastCall' = IF called
                           THEN Call(step.signal, deployment.dry_run, step.res)
                           ELSE lastCall
            /\ orders' = IF called THEN OrdersAfter(step.res) ELSE orders
            /\ attempts' = IF called
                           THEN [attempts EXCEPT ![symbol] = @ + NumSubmits(step.res.calls)]
                           ELSE attempts
            /\ failed' = IF called /\ Submitted(step.res) /\ raised
                         THEN failed \cup {symbol} ELSE failed
            /\ evaluation' = IF step.signal = None THEN evaluation
                             ELSE [df |-> df, signal |-> step.signal]
            /\ IF raised /\ deployment.runner = "run_scan"
               THEN pc' = "aborted" /\ idx' = idx /\ errors' = errors
               ELSE /\ errors' = IF raised THEN errors \cup {symbol} ELSE errors
                    /\ idx' = idx + 1
                    /\ pc' = IF idx + 1 > Len(bars) THEN "done" ELSE "evaluating"
    /\ UNCHANGED <<equity, positions, bars, relisted>>
    /\ UNCHANGED configVars
    /\ UNCHANGED flightVars
    /\ UNCHANGED schedVars

\* brokerage: an open order fills and leaves the book; a notional order
\* fills HeldQty
Fill ==
    /\ \E i \in 1..Len(orders) :
        LET o == orders[i]
            q == IF o.qty # Absent THEN o.qty ELSE HeldQty
        IN  /\ positions' = [positions EXCEPT ![o.symbol] =
                                IF o.side = BUY THEN @ + q ELSE @ - q]
            /\ orders' = SubSeq(orders, 1, i - 1) \o SubSeq(orders, i + 1, Len(orders))
    /\ UNCHANGED <<equity, lastCall, evaluation>>
    /\ UNCHANGED cycleVars
    /\ UNCHANGED configVars
    /\ UNCHANGED flightVars
    /\ UNCHANGED schedVars

NextCycle == StartCycle \/ EvaluateSymbol \/ Fill

SpecCycle == InitCycle /\ [][NextCycle]_vars

(* ------------------------------ invocations over time ----------------- *)
\* The invocations one executor receives over successive cycles, seen from
\* the brokerage: every submitted order fills before the next invocation.
TradeExecutionConfigs ==
    [order_type : {"market"},
     time_in_force : {"gtc"},
     position_size_pct : {5},
     max_positions : 0..MaxMaxPositions,
     allow_short : BOOLEAN,
     extended_hours : BOOLEAN]

\* an account that starts with at most max_positions open positions
InitTrade ==
    /\ settings \in {Settings(DefaultSignal, e) : e \in TradeExecutionConfigs}
    /\ deployment = NoDeployment
    /\ equity = 10000000
    /\ positions \in [Symbols -> QtyChoices]
    /\ Cardinality(get_positions(positions)) <= settings.execution.max_positions
    /\ orders = <<>>
    /\ IdleCycle
    /\ lastCall = None
    /\ evaluation = None
    /\ NoScheduler

\* executor.execute_signal(signal, dry_run) on the long-lived executor; the
\* quantities of the model stay within twice HeldQty
Decide ==
    /\ orders = <<>>
    /\ \A s \in Symbols : Abs(positions[s]) <= HeldQty
    /\ \E s \in Symbols, a \in Action, dr \in BOOLEAN, ok \in BOOLEAN :
        LET signal == Signal(s, a, <<1, 2>>, <<>>)
            res == execute_signal(signal, dr, settings.execution, equity, positions, ok)
        IN  /\ lastCall' = Call(signal, dr, res)
            /\ orders' = OrdersAfter(res)
    /\ UNCHANGED <<equity, positions, evaluation>>
    /\ UNCHANGED cycleVars
    /\ UNCHANGED configVars
    /\ UNCHANGED flightVars
    /\ UNCHANGED schedVars

NextTrade == Decide \/ Fill

SpecTrade == InitTrade /\ [][NextTrade]_vars

(* ------------------------------ aggregator alone ----------------------- *)
\* signal.min_agree is read from the file or the database row unchecked
SignalConfigs ==
    [mode : {"unanimous", "any", "weighted"}, min_agree : {2}]
        \cup [mode : {"majority"}, min_agree : -1..MaxMinAgree]

\* every choice of enabled indicators under every SignalConfig
EvalSettings ==
    {[rsi |-> Enabled(r), sma |-> Enabled(s), macd |-> Enabled(m),
      bollinger |-> Enabled(b), signal |-> g,
      execution |-> [order_type |-> "market", time_in_force |-> "day",
                     position_size_pct |-> 5, max_positions |-> MaxMaxPositions,
                     allow_short |-> FALSE, extended_hours |-> FALSE]] :
        r \in BOOLEAN, s \in BOOLEAN, m \in BOOLEAN, b \in BOOLEAN,
        g \in SignalConfigs}

\* the frames a caller can hand over: empty or not, any raw value in the
\* last row of each vote column
EvalFrames == [empty : BOOLEAN, latest : [IndicatorColumns -> RawVotes]]

InitEval ==
    /\ settings \in EvalSettings
    /\ deployment = NoDeployment
    /\ equity = 10000000
    /\ positions = [s \in Symbols |-> 0]
    /\ orders = <<>>
    /\ IdleCycle
    /\ lastCall = None
    /\ evaluation = None
    /\ NoScheduler

\* a direct call of evaluate_signals, as each test of test_signals.py makes it
EvaluateSignals ==
    /\ evaluation = None
    /\ \E df \in EvalFrames, symbol \in Symbols :
        evaluation' = [df |-> df, signal |-> evaluate_signals(df, symbol, settings)]
    /\ UNCHANGED <<lastCall>>
    /\ UNCHANGED brokerageVars
    /\ UNCHANGED cycleVars
    /\ UNCHANGED configVars
    /\ UNCHANGED flightVars
    /\ UNCHANGED schedVars

NextEval == EvaluateSignals

SpecEval == InitEval /\ [][NextEval]_vars

(* ------------------------------ schedulers ----------------------------- *)
\* The schedulers are modelled one job invocation at a time.  An account
\* cycle is seen through the calls it makes (get_clock, fetch_bars,
\* submit_order) and through what it evaluates and catches; each account
\* has its own brokerage session, which the cycle runners above model.
EntryPoints == {"schedule", "dashboard", "auto_trader", "headless"}

\* datetime.time(h, m), in minutes after midnight
time(h, m) == 60 * h + m

UtcChoices == {time(0, 30), time(8, 30), time(10, 0), time(15, 0), time(22, 0)}

\* wall time in US/Eastern: "ET = UTC-5 in winter, UTC-4 in summer"
eastern(env) == (env.utc + time(24, 0) - (IF env.dst THEN time(4, 0) ELSE time(5, 0)))
                    % time(24, 0)

\* datetime.now() on the host of the headless trader
local_now(env) == IF env.host_zone = "UTC" THEN env.utc ELSE eastern(env)

\* "Regular market hours: 9:30 AM ET" to 4 PM ET
InRegularSession(env) ==
    time(9, 30) <= eastern(env) /\ eastern(env) <= time(16, 0)

\* "Extended hours: pre-market (4 AM ET) through after-hours (8 PM ET)"
InExtendedSession(env) ==
    time(4, 0) <= eastern(env) /\ eastern(env) <= time(20, 0)

\* the instant of a job invocation: UTC time, daylight saving, the answer of
\* the brokerage clock (open only inside the regular session; the request
\* can fail where it is made) and the zone of the host
Environments(ep) ==
    {env \in [utc : UtcChoices, dst : BOOLEAN,
              clock : IF ep \in {"schedule", "dashboard"}
                      THEN {"open", "closed", "raises"} ELSE {"open", "closed"},
              host_zone : IF ep = "headless" THEN {"UTC", "US/Eastern"} ELSE {"UTC"}] :
        env.clock = "open" => InRegularSession(env)}

\* per symbol with bars: what its evaluation comes to
StepOutcomes == {"hold", "order", "compute_raises", "submit_raises"}

NoWork == [fetch_ok |-> FALSE, steps |-> <<>>]

\* the symbols with bars of one cycle, in the order of the loop
WorkSteps ==
    {<<>>, <<"hold">>, <<"order">>, <<"order", "order">>,
     <<"compute_raises", "order">>, <<"submit_raises", "order">>,
     <<"order", "submit_raises">>}

\* what the data source and the symbols of one cycle do
Works == {NoWork} \cup [fetch_ok : {TRUE}, steps : WorkSteps]

Faults(ep) ==
    IF ep = "auto_trader"
    THEN {"no_settings", "no_account", "decrypt", "auth", "empty_watchlist"}
    ELSE IF ep = "headless" THEN {"empty_watchlist"}
    ELSE {}

\* one account as a job finds it: what is missing or broken before the
\* fetch, or the work of its cycle
AccountInputs(ep) ==
    {[fault |-> f, work |-> NoWork] : f \in Faults(ep)} \cup
    {[fault |-> "none", work |-> w] : w \in Works}

RunResult(status, gate, calls, evaluated, caught) ==
    [status |-> status, gate |-> gate, calls |-> calls,
     evaluated |-> evaluated, caught |-> caught]

\* how the caller of an account cycle sees it end
Outcome(result) == IF result.status = "raised" THEN "raised" ELSE "returned"

\* "for symbol, df in bars.items()" with or without the try/except around
\* its body; live: an execute_signal call reaches submit_order
RECURSIVE symbol_loop(_, _, _, _)
symbol_loop(catches, live, steps, acc) ==
    IF steps = <<>> \/ acc.raised THEN acc
    ELSE
        LET step == Head(steps)
            submits == live /\ step \in {"order", "submit_raises"}
            raises == step = "compute_raises" \/ (live /\ step = "submit_raises")
        IN  symbol_loop(catches, live, Tail(steps),
                [calls |-> IF submits THEN Append(acc.calls, "submit_order")
                           ELSE acc.calls,
                 evaluated |-> acc.evaluated + (IF step = "compute_raises" THEN 0 ELSE 1),
                 caught |-> acc.caught + (IF raises /\ catches THEN 1 ELSE 0),
                 raised |-> raises /\ ~catches])

\* fetch_bars, then the loop
fetch_and_loop(catches, live, work, calls) ==
    IF ~work.fetch_ok
    THEN [calls |-> Append(calls, "fetch_bars"), evaluated |-> 0, caught |-> 0,
          raised |-> TRUE]
    ELSE symbol_loop(catches, live, work.steps,
                     [calls |-> Append(calls, "fetch_bars"), evaluated |-> 0,
                      caught |-> 0, raised |-> FALSE])

\* mutant of job: the scan runs and only then the clock is asked
job_gate_after_scan(st, dep, env, account) ==
    LET r == fetch_and_loop(FALSE, dep.execute /\ ~dep.dry_run, account.work, <<>>)
    IN  IF r.raised THEN RunResult("raised", "none", r.calls, r.evaluated, r.caught)
        ELSE IF st.schedule.market_hours_only /\ env.clock = "closed"
            THEN RunResult("skipped", "closed", Append(r.calls, "get_clock"),
                           r.evaluated, r.caught)
        ELSE RunResult("completed", "open", r.calls, r.evaluated, r.caught)

\* the job of main.py "schedule" and of dashboard.py
job(st, dep, env, account) ==
    LET gated == st.schedule.market_hours_only
        asked == IF gated THEN <<"get_clock">> ELSE <<>>
    IN  IF gated /\ env.clock = "raises"
            THEN RunResult("raised", "raised", asked, 0, 0)
        ELSE IF gated /\ env.clock = "closed"
            THEN RunResult("skipped", "closed", asked, 0, 0)
        ELSE
            LET r == fetch_and_loop(FALSE, dep.execute /\ ~dep.dry_run,
                                    account.work, asked)
            IN  RunResult(IF r.raised THEN "raised" ELSE "completed",
                          IF gated THEN "open" ELSE "none",
                          r.calls, r.evaluated, r.caught)

\* AutoTrader._process_user: session_open_utc, session_close_utc
session_window(extended_hours) ==
    IF extended_hours THEN <<time(9, 0), time(23, 59)>>
    ELSE <<time(13, 30), time(21, 0)>>

\* "not (session_open_utc <= now_utc_time <= session_close_utc)"
outside_session(settings_db, env) ==
    LET w == session_window(settings_db.execution_extended_hours)
    IN  ~(w[1] <= env.utc /\ env.utc <= w[2])

\* AutoTrader._create_settings_object reads execution_extended_hours of the
\* row among the other columns: does the conversion raise AttributeError
create_settings_object_raises(settings_db) ==
    ~HasAttr(settings_db, "execution_extended_hours")

\* settings_db is the row of the account; reading an attribute the row
\* does not have raises AttributeError, at the gate when the gate is on and
\* in _create_settings_object otherwise
process_user(settings_db, dep, env, account) ==
    IF account.fault = "no_settings" THEN RunResult("returned", "none", <<>>, 0, 0)
    ELSE IF /\ settings_db.schedule_market_hours_only
            /\ ~HasAttr(settings_db, "execution_extended_hours")
        THEN RunResult("raised", "raised", <<>>, 0, 0)
    ELSE IF settings_db.schedule_market_hours_only /\ outside_session(settings_db, env)
        THEN RunResult("skipped", "closed", <<>>, 0, 0)
    ELSE
        LET gate == IF settings_db.schedule_market_hours_only THEN "open" ELSE "none"
        IN  IF account.fault = "no_account" THEN RunResult("returned", gate, <<>>, 0, 0)
            ELSE IF account.fault \in {"decrypt", "auth"}
                THEN RunResult("raised", gate, <<>>, 0, 0)
            ELSE IF create_settings_object_raises(settings_db)
                THEN RunResult("raised", gate, <<>>, 0, 0)
            ELSE IF account.fault = "empty_watchlist"
                THEN RunResult("returned", gate, <<>>, 0, 0)
            ELSE
                LET r == fetch_and_loop(TRUE, TRUE, account.work, <<>>)
                IN  RunResult(IF r.raised THEN "raised" ELSE "completed", gate,
                              r.calls, r.evaluated, r.caught)

\* HeadlessTrader._check_signals: "not (market_open <= now <= market_close)"
outside_market_hours(env) ==
    ~(time(9, 30) <= local_now(env) /\ local_now(env) <= time(16, 0))

\* dep.execute is trading_enabled; the outer try/except lets nothing out
check_signals(st, dep, env, account) ==
    IF st.schedule.market_hours_only /\ outside_market_hours(env)
        THEN RunResult("skipped", "closed", <<>>, 0, 0)
    ELSE
        LET gate == IF st.schedule.market_hours_only THEN "open" ELSE "none"
        IN  IF account.fault = "empty_watchlist"
                THEN RunResult("returned", gate, <<>>, 0, 0)
            ELSE
                LET r == fetch_and_loop(TRUE, dep.execute, account.work, <<>>)
                IN  RunResult(IF r.raised THEN "failed" ELSE "completed", gate,
                              r.calls, r.evaluated, r.caught + (IF r.raised THEN 1 ELSE 0))

\* the cycle of one account under the entry point's job
account_cycle(ep, st, dep, env, account) ==
    IF ep = "auto_trader" THEN process_user(st, dep, env, account)
    ELSE IF ep = "headless" THEN check_signals(st, dep, env, account)
    ELSE job(st, dep, env, account)

\* mutant of next_user: an account's exception reaches the outer handler
next_user_until_raised(log, result) ==
    IF result.status = "raised" THEN "check_failed"
    ELSE IF Len(log) + 1 < NumUsers THEN "users" ELSE "done"

\* _check_all_users: "for user in users_with_scheduling" with the
\* try/except inside the loop: on to the next user whatever happened
next_user(log, result) ==
    IF Len(log) + 1 < NumUsers THEN "users" ELSE "done"

\* Settings with the schedule section the gates read
SchedSettings(execution, schedule) ==
    [rsi |-> Enabled(TRUE), sma |-> Enabled(FALSE), macd |-> Enabled(FALSE),
     bollinger |-> Enabled(FALSE), signal |-> CycleSignal,
     execution |-> execution, schedule |-> schedule]

\* what the operator asks for, in settings.yaml or for the account's row
RawConfigs == [market_hours_only : BOOLEAN, extended_hours : BOOLEAN]

\* config.load_settings: the execution section is read key by key and
\* extended_hours is not among the keys read, so the default (False) stays
load_settings(raw) ==
    SchedSettings([order_type |-> "market", time_in_force |-> "gtc",
                   position_size_pct |-> 5, max_positions |-> MaxMaxPositions,
                   allow_short |-> FALSE, extended_hours |-> FALSE],
                  [market_hours_only |-> raw.market_hours_only])

\* models.Settings, the row AutoTrader reads: the columns of the execution
\* and schedule groups; the table has no execution_extended_hours column
SettingsModel(raw) ==
    [execution_order_type |-> "market", execution_time_in_force |-> "gtc",
     execution_position_size_pct |-> 5,
     execution_max_positions |-> MaxMaxPositions,
     execution_allow_short |-> FALSE,
     schedule_enabled |-> TRUE,
     schedule_market_hours_only |-> raw.market_hours_only]

\* what each entry point hands to its runner: main.py and dashboard.py
\* run_scan(execute=True, dry_run), AutoTrader executes, HeadlessTrader
\* executes when TRADING_ENABLED
SchedDeployments(ep) ==
    IF ep = "auto_trader"
    THEN [runner : {"process_user"}, execute : {TRUE}, dry_run : {FALSE},
          raw : RawConfigs]
    ELSE IF ep = "headless"
    THEN [runner : {"check_signals"}, execute : BOOLEAN, dry_run : {FALSE},
          raw : RawConfigs]
    ELSE [runner : {"run_scan"}, execute : {TRUE}, dry_run : BOOLEAN,
          raw : RawConfigs]

\* a scheduler object was built and not yet started: the entry points of
\* one process loaded their Settings, AutoTrader reads the rows
InitSched ==
    /\ entry \in EntryPoints
    /\ deployment \in SchedDeployments(entry)
    /\ settings = IF entry = "auto_trader" THEN SettingsModel(deployment.raw)
                  ELSE load_settings(deployment.raw)
    /\ schedState = "created"
    /\ ticks = 0 /\ starts = 0
    /\ tickPc = "idle" /\ tickLog = <<>> /\ lastRun = None
    /\ flight = NoFlight /\ stopRequest = None
    /\ equity = 10000000
    /\ positions = [s \in Symbols |-> 0]
    /\ orders = <<>>
    /\ IdleCycle
    /\ lastCall = None
    /\ evaluation = None

Run(env, account, result) ==
    [env |-> env, fault |-> account.fault, fetch_ok |-> account.work.fetch_ok,
     result |-> result]

\* TradingScheduler.start (add_job, run_fn() at once, scheduler.start()),
\* HeadlessTrader.start (the job was added with next_run_time=now),
\* AutoTrader.start (add_job with the interval trigger, nothing run)
Start ==
    /\ schedState = "created"
    /\ IF entry = "auto_trader"
       THEN /\ schedState' = "running"
            /\ UNCHANGED <<starts, tickPc, tickLog, lastRun>>
       ELSE \E env \in Environments(entry), account \in AccountInputs(entry) :
               LET result == account_cycle(entry, settings, deployment, env, account)
               IN  /\ starts' = starts + 1
                   /\ lastRun' = Run(env, account, result)
                   /\ tickLog' = <<Outcome(result)>>
                   /\ tickPc' = "done"
                   /\ schedState' = IF result.status = "raised"
                                     THEN "crashed" ELSE "running"
    /\ UNCHANGED <<entry, ticks>>
    /\ UNCHANGED <<lastCall, evaluation>>
    /\ UNCHANGED brokerageVars
    /\ UNCHANGED cycleVars
    /\ UNCHANGED configVars
    /\ UNCHANGED flightVars

\* the trigger fires and the scheduler runs the job; an exception of the
\* job stays in the job's thread.  For AutoTrader the job is
\* _check_all_users, which starts with the query for the scheduled users.
Tick ==
    /\ schedState = "running" /\ ticks < MaxTicks /\ tickPc # "users"
    /\ ticks' = ticks + 1
    /\ starts' = starts + 1
    /\ IF entry = "auto_trader"
       THEN \E query_ok \in BOOLEAN :
               /\ tickPc' = IF query_ok THEN "users" ELSE "query_failed"
               /\ tickLog' = <<>>
               /\ lastRun' = lastRun
       ELSE \E env \in Environments(entry), account \in AccountInputs(entry) :
               LET result == account_cycle(entry, settings, deployment, env, account)
               IN  /\ lastRun' = Run(env, account, result)
                   /\ tickLog' = <<Outcome(result)>>
                   /\ tickPc' = "done"
    /\ UNCHANGED <<entry, schedState>>
    /\ UNCHANGED <<lastCall, evaluation>>
    /\ UNCHANGED brokerageVars
    /\ UNCHANGED cycleVars
    /\ UNCHANGED configVars
    /\ UNCHANGED flightVars

\* one iteration of "for user in users_with_scheduling"
ProcessUser ==
    /\ tickPc = "users"
    /\ \E env \in Environments(entry), account \in AccountInputs(entry) :
        LET result == account_cycle(entry, settings, deployment, env, account)
        IN  /\ lastRun' = Run(env, account, result)
            /\ tickLog' = Append(tickLog, Outcome(result))
            /\ tickPc' = next_user(tickLog, result)
    /\ UNCHANGED <<entry, schedState, ticks, starts>>
    /\ UNCHANGED <<lastCall, evaluation>>
    /\ UNCHANGED brokerageVars
    /\ UNCHANGED cycleVars
    /\ UNCHANGED configVars
    /\ UNCHANGED flightVars

\* stop(): scheduler.shutdown(); a job in flight runs to its end
Stop ==
    /\ schedState = "running"
    /\ schedState' = "stopped"
    /\ UNCHANGED <<entry, ticks, starts, tickPc, tickLog, lastRun>>
    /\ UNCHANGED <<lastCall, evaluation>>
    /\ UNCHANGED brokerageVars
    /\ UNCHANGED cycleVars
    /\ UNCHANGED configVars
    /\ UNCHANGED flightVars

NextSched == Start \/ Tick \/ ProcessUser \/ Stop

SpecSched == InitSched /\ [][NextSched]_vars

(* ------------------------------ cycles in flight ----------------------- *)
\* The schedulers with their threads: the main thread inside start(), the
\* job instances the executor runs in worker threads, and a stop request
\* that can arrive at any moment.
TradingEntries == {"schedule", "dashboard"}

\* mutant of start_order: the periodic scheduler is started before the
\* initial scan
start_order_scheduler_first == <<"add_job", "scheduler.start", "run_fn">>

\* TradingScheduler.start, after the trigger is built
start_order == <<"add_job", "run_fn", "scheduler.start">>

\* add_job is given no max_instances: the scheduler library's default
max_instances == 1

\* a cycle between its start and its end: its symbols are being evaluated,
\* or a guard has passed and the order is not submitted yet
InFlight(cycle) == cycle.stage \in {"evaluating", "guard_passed"}

\* a cycle as it starts: at the first symbol of the watchlist
FirstSymbol == [stage |-> "evaluating", symbol |-> 1]

\* the loop over the watchlist goes to the next symbol, or the cycle ends
next_symbol(cycle) ==
    IF cycle.symbol < NumSymbols
    THEN [stage |-> "evaluating", symbol |-> cycle.symbol + 1]
    ELSE NoCycle

\* where a cycle can go next: from a symbol to its passed guard or, with no
\* order to place, to the next symbol; from a passed guard through
\* submit_order to the next symbol
cycle_steps(cycle) ==
    IF cycle.stage = "evaluating"
    THEN {[cycle EXCEPT !.stage = "guard_passed"], next_symbol(cycle)}
    ELSE IF cycle.stage = "guard_passed" THEN {next_symbol(cycle)}
    ELSE {}

\* the main thread sits in BlockingScheduler.start(), which returns when
\* the scheduler is shut down
blocked_in_start(ep, state, fl) ==
    /\ ep = "schedule"
    /\ fl.main_pc > 0
    /\ start_order[fl.main_pc] = "scheduler.start"
    /\ state = "running"

\* the objects are built: HeadlessTrader.__init__ has added its job,
\* AutoTrader.__init__ has started its scheduler
InitFlight ==
    /\ entry \in EntryPoints
    /\ deployment = NoDeployment
    /\ settings = load_settings([market_hours_only |-> FALSE, extended_hours |-> FALSE])
    /\ schedState = IF entry = "auto_trader" THEN "running" ELSE "created"
    /\ ticks = 0 /\ starts = 0
    /\ tickPc = "idle" /\ tickLog = <<>> /\ lastRun = None
    /\ flight = [NoFlight EXCEPT !.job_added = (entry = "headless")]
    /\ stopRequest = None
    /\ equity = 10000000
    /\ positions = [s \in Symbols |-> 0]
    /\ orders = <<>>
    /\ IdleCycle
    /\ lastCall = None
    /\ evaluation = None

\* TradingScheduler.start goes on by one statement in the main thread
StartStatement ==
    /\ entry \in TradingEntries
    /\ flight.main_pc < Len(start_order)
    /\ flight.main = NoCycle
    /\ ~blocked_in_start(entry, schedState, flight)
    /\ LET stmt == start_order[flight.main_pc + 1]
       IN  IF stmt = "add_job"
           THEN /\ flight' = [flight EXCEPT !.main_pc = @ + 1, !.job_added = TRUE]
                /\ UNCHANGED <<schedState, starts>>
           ELSE IF stmt = "run_fn"
           THEN /\ flight' = [flight EXCEPT !.main_pc = @ + 1, !.main = FirstSymbol]
                /\ starts' = starts + 1
                /\ UNCHANGED schedState
           ELSE /\ flight' = [flight EXCEPT !.main_pc = @ + 1]
                /\ schedState' = "running"
                /\ UNCHANGED starts
    /\ UNCHANGED <<entry, ticks, tickPc, tickLog, lastRun, stopRequest>>
    /\ UNCHANGED <<lastCall, evaluation>>
    /\ UNCHANGED brokerageVars
    /\ UNCHANGED cycleVars
    /\ UNCHANGED configVars

\* HeadlessTrader.start: scheduler.start(); the job was added with
\* next_run_time=datetime.now(), so its first instance is run at once
HeadlessStart ==
    /\ entry = "headless" /\ schedState = "created"
    /\ schedState' = "running"
    /\ flight' = [flight EXCEPT !.main_pc = 1, !.workers = Append(@, FirstSymbol)]
    /\ starts' = starts + 1
    /\ UNCHANGED <<entry, ticks, tickPc, tickLog, lastRun, stopRequest>>
    /\ UNCHANGED <<lastCall, evaluation>>
    /\ UNCHANGED brokerageVars
    /\ UNCHANGED cycleVars
    /\ UNCHANGED configVars

\* AutoTrader.start: add_job with the interval trigger
AutoTraderStart ==
    /\ entry = "auto_trader" /\ ~flight.job_added
    /\ flight' = [flight EXCEPT !.main_pc = 1, !.job_added = TRUE]
    /\ UNCHANGED <<entry, schedState, ticks, starts, tickPc, tickLog, lastRun,
                   stopRequest>>
    /\ UNCHANGED <<lastCall, evaluation>>
    /\ UNCHANGED brokerageVars
    /\ UNCHANGED cycleVars
    /\ UNCHANGED configVars

\* the trigger fires: the running scheduler hands a new instance of the job
\* to its executor unless max_instances of them are still running
Fire ==
    /\ schedState = "running" /\ flight.job_added /\ ticks < MaxTicks
    /\ ticks' = ticks + 1
    /\ IF Len(flight.workers) < max_instances
       THEN /\ flight' = [flight EXCEPT !.workers = Append(@, FirstSymbol)]
            /\ starts' = starts + 1
       ELSE UNCHANGED <<flight, starts>>
    /\ UNCHANGED <<entry, schedState, tickPc, tickLog, lastRun, stopRequest>>
    /\ UNCHANGED <<lastCall, evaluation>>
    /\ UNCHANGED brokerageVars
    /\ UNCHANGED cycleVars
    /\ UNCHANGED configVars

\* the initial scan, run_fn() called by start() in the main thread, goes on
MainCycleStep ==
    /\ InFlight(flight.main)
    /\ \E next \in cycle_steps(flight.main) :
        flight' = [flight EXCEPT !.main = next]
    /\ UNCHANGED <<entry, schedState, ticks, starts, tickPc, tickLog, lastRun,
                   stopRequest>>
    /\ UNCHANGED <<lastCall, evaluation>>
    /\ UNCHANGED brokerageVars
    /\ UNCHANGED cycleVars
    /\ UNCHANGED configVars

\* a job instance in a worker thread goes on; one that ends leaves the
\* executor, also after shutdown(), which waits for it
JobStep ==
    /\ \E i \in 1..Len(flight.workers) :
        \E next \in cycle_steps(flight.workers[i]) :
            flight' = [flight EXCEPT !.workers =
                        IF next = NoCycle
                        THEN SubSeq(@, 1, i - 1) \o SubSeq(@, i + 1, Len(@))
                        ELSE [@ EXCEPT ![i] = next]]
    /\ UNCHANGED <<entry, schedState, ticks, starts, tickPc, tickLog, lastRun,
                   stopRequest>>
    /\ UNCHANGED <<lastCall, evaluation>>
    /\ UNCHANGED brokerageVars
    /\ UNCHANGED cycleVars
    /\ UNCHANGED configVars

\* Ctrl+C while the main thread is inside TradingScheduler.start, whose
\* callers install no handler: KeyboardInterrupt is raised where the thread
\* stands.  Inside the blocking scheduler.start() it is caught and answered
\* by scheduler.shutdown(); inside run_fn(), which no try covers, it ends
\* the initial scan and leaves start()
Interrupt ==
    /\ entry \in TradingEntries /\ stopRequest = None
    /\ flight.main_pc > 0 /\ flight.main.stage # "interrupted"
    /\ entry = "dashboard" => flight.main_pc < Len(start_order) \/ InFlight(flight.main)
    /\ stopRequest' = [starts |-> starts]
    /\ IF InFlight(flight.main)
       THEN /\ flight' = [flight EXCEPT !.main.stage = "interrupted",
                                        !.main_pc = Len(start_order)]
            /\ UNCHANGED schedState
       ELSE IF blocked_in_start(entry, schedState, flight)
       THEN /\ schedState' = "stopped"
            /\ flight' = [flight EXCEPT !.main_pc = Len(start_order)]
       ELSE /\ flight' = [flight EXCEPT !.main_pc = Len(start_order)]
            /\ UNCHANGED schedState
    /\ UNCHANGED <<entry, ticks, starts, tickPc, tickLog, lastRun>>
    /\ UNCHANGED <<lastCall, evaluation>>
    /\ UNCHANGED brokerageVars
    /\ UNCHANGED cycleVars
    /\ UNCHANGED configVars

\* TradingScheduler.stop of the dashboard once start() has returned,
\* HeadlessTrader._signal_handler (stop(), then sys.exit) and
\* AutoTrader.stop: scheduler.shutdown(), which waits for the running job
StopCall ==
    /\ entry \in {"dashboard", "headless", "auto_trader"} /\ stopRequest = None
    /\ entry = "dashboard" =>
            flight.main_pc = Len(start_order) /\ flight.main = NoCycle
    /\ stopRequest' = [starts |-> starts]
    /\ schedState' = "stopped"
    /\ UNCHANGED <<entry, ticks, starts, tickPc, tickLog, lastRun, flight>>
    /\ UNCHANGED <<lastCall, evaluation>>
    /\ UNCHANGED brokerageVars
    /\ UNCHANGED cycleVars
    /\ UNCHANGED configVars

NextFlight ==
    \/ StartStatement \/ HeadlessStart \/ AutoTraderStart \/ Fire
    \/ MainCycleStep \/ JobStep \/ Interrupt \/ StopCall

SpecFlight == InitFlight /\ [][NextFlight]_vars

(* ------------------------------ properties ----------------------------- *)
Called == lastCall # None

\* the nearest cent to equity * position_size_pct / 100
NearestCent(notional, eq, pct) == 2 * Abs(100 * notional - eq * pct) <= 100

\* a reference price travels with the decision
PriceAvailable(signal) ==
    HasAttr(signal, "price") /\ signal.price # Absent /\ signal.price # 0

\* C1: with extended_hours off, a BUY is submitted if and only if the symbol
\* is not held and fewer than max_positions positions are open; when the
\* symbol is held or the limit is reached nothing is returned and
\* submit_order is not called.
C1_BuyGuard ==
    (Called /\ lastCall.signal.action = BUY /\ ~settings.execution.extended_hours) =>
        LET res == lastCall.res
            room == /\ lastCall.held = 0
                    /\ lastCall.open < settings.execution.max_positions
        IN  /\ Submitted(res) => room
            /\ (room /\ ~lastCall.dry_run) => NumSubmits(res.calls) = 1
            /\ ~room => /\ res.ret = None
                        /\ ~Submitted(res)
                        /\ Len(orders) = lastCall.orders_before

\* a BUY on a new symbol with the position limit reached, and nothing submitted
C1_Witness ==
    /\ Called /\ lastCall.signal.action = BUY
    /\ ~settings.execution.extended_hours /\ ~lastCall.dry_run
    /\ lastCall.held = 0
    /\ lastCall.open = settings.execution.max_positions
    /\ lastCall.open > 0
    /\ lastCall.res.ret = None

\* C2: a SELL on a symbol that is not held submits nothing when allow_short
\* is false, and when allow_short is true submits exactly one sell-side
\* order sized by the notional equity * position_size_pct / 100.
C2_SellNoPosition ==
    (Called /\ lastCall.signal.action = SELL /\ lastCall.held = 0) =>
        LET res == lastCall.res
        IN  /\ ~settings.execution.allow_short =>
                    ~Submitted(res) /\ res.order_request = None
            /\ (settings.execution.allow_short /\ ~lastCall.dry_run) =>
                    /\ NumSubmits(res.calls) = 1
                    /\ res.order_request # None
                    /\ res.order_request.side = SELL
                    /\ res.order_request.notional # Absent
                    /\ NearestCent(res.order_request.notional, lastCall.equity,
                                   settings.execution.position_size_pct)

\* C3: a SELL on a held symbol always produces a sell-side order for the
\* absolute value of the held quantity.
C3_SellFullPosition ==
    (Called /\ lastCall.signal.action = SELL /\ lastCall.held # 0) =>
        /\ lastCall.res.order_request # None
        /\ lastCall.res.order_request.side = SELL
        /\ lastCall.res.order_request.qty = Abs(lastCall.held)

\* C4: a HOLD returns nothing, makes no brokerage call, sizes no order and
\* leaves the brokerage's orders as they were.
C4_HoldNoEffect ==
    (Called /\ lastCall.signal.action = HOLD) =>
        /\ lastCall.res.ret = None
        /\ lastCall.res.calls = <<>>
        /\ lastCall.res.order_request = None
        /\ lastCall.res.raised = NoError
        /\ Len(orders) = lastCall.orders_before

\* a HOLD was handed to execute_signal on an account with room to buy
C4_Witness ==
    /\ Called /\ lastCall.signal.action = HOLD
    /\ lastCall.held = 0
    /\ lastCall.open < settings.execution.max_positions

\* C5: a dry run returns an order intent exactly when the live call would
\* call submit_order, with the same side and sizing, and itself never calls
\* submit_order nor changes the brokerage's orders.
C5_DryRunEquivalence ==
    (Called /\ lastCall.dry_run) =>
        LET res == lastCall.res
            live == execute_signal(lastCall.signal, FALSE, settings.execution,
                                   lastCall.equity, positions, TRUE)
        IN  /\ (res.ret # None) <=> Submitted(live)
            /\ res.ret # None =>
                    LET desc == res.ret.description
                        o == live.order_request
                    IN  /\ res.ret.dry_run
                        /\ res.ret.symbol = o.symbol
                        /\ (desc[1] = "BUY") <=> (o.side = BUY)
                        /\ desc[3] = "notional" => o.notional = desc[4] /\ o.qty = Absent
                        /\ desc[3] = "qty" => o.qty = desc[4] /\ o.notional = Absent
            /\ ~Submitted(res)
            /\ Len(orders) = lastCall.orders_before

\* a dry run of a SELL on a held symbol returned its intent
C5_Witness ==
    /\ Called /\ lastCall.dry_run
    /\ lastCall.signal.action = SELL /\ lastCall.held # 0
    /\ lastCall.res.ret # None
    /\ orders = <<>>

\* C6: with extended_hours off, the order of a BUY that passes the guards is
\* a market order sized by the notional equity * position_size_pct / 100
\* rounded to the cent (5000.00 for 100000 and 5), with the configured
\* time in force.
C6_BuyMarketNotional ==
    (/\ Called /\ lastCall.signal.action = BUY
     /\ ~settings.execution.extended_hours
     /\ lastCall.res.order_request # None) =>
        LET o == lastCall.res.order_request
            cfg == settings.execution
        IN  /\ o.type = "market" /\ o.side = BUY
            /\ o.qty = Absent /\ o.limit_price = Absent
            /\ NearestCent(o.notional, lastCall.equity, cfg.position_size_pct)
            /\ (lastCall.equity = 10000000 /\ cfg.position_size_pct = 5) =>
                    o.notional = 500000
            /\ cfg.time_in_force = "day" => o.time_in_force = "DAY"
            /\ cfg.time_in_force = "gtc" => o.time_in_force = "GTC"
            /\ cfg.time_in_force = "ioc" => o.time_in_force = "IOC"

\* equity 100000.00 at 5 percent: a good-till-cancelled BUY of 5000.00 accepted
C6_Witness ==
    /\ Called /\ lastCall.signal.action = BUY
    /\ lastCall.equity = 10000000
    /\ settings.execution.position_size_pct = 5
    /\ settings.execution.time_in_force = "gtc"
    /\ Accepted(lastCall.res)
    /\ lastCall.res.order_request.notional = 500000

\* the guards of section 4.2, on the account as the invocation read it
GuardsPass(call) ==
    /\ call.signal.action # HOLD
    /\ call.signal.action = BUY =>
            call.held = 0 /\ call.open < settings.execution.max_positions
    /\ (call.signal.action = SELL /\ call.held = 0) => settings.execution.allow_short
    /\ settings.execution.extended_hours => PriceAvailable(call.signal)

\* C7: an invocation that passes the guards with dry_run off calls
\* submit_order exactly once, a rejected one never, and a submission that
\* raised is not made again in the cycle.
C7_SubmitOnce ==
    /\ Called =>
            LET n == NumSubmits(lastCall.res.calls)
            IN  /\ (GuardsPass(lastCall) /\ ~lastCall.dry_run) => n = 1
                /\ ~GuardsPass(lastCall) => n = 0
    /\ \A s \in failed : attempts[s] = 1

\* a submission raised, and the cycle went on to its end without a second one
C7_Witness ==
    /\ pc = "done"
    /\ \E s \in failed : attempts[s] = 1 /\ bars[Len(bars)] # s
    /\ Called /\ lastCall.signal.symbol \notin failed

\* C8: within one cycle at most one order is submitted per symbol, also
\* when the watchlist lists a symbol twice.
C8_OneOrderPerSymbol ==
    \A s \in Symbols : attempts[s] <= 1

\* the watchlist lists a symbol twice and its one order was accepted
C8_Witness ==
    /\ pc = "done"
    /\ \E s \in relisted : attempts[s] = 1 /\ s \notin failed

\* C9: with extended_hours on no market order is produced; a decision
\* without a reference price is rejected without an order and without an
\* error, and the cycle goes on.
C9_ExtendedHoursNoPrice ==
    (Called /\ settings.execution.extended_hours) =>
        LET res == lastCall.res
        IN  /\ res.order_request # None => res.order_request.type # "market"
            /\ ~PriceAvailable(lastCall.signal) =>
                    /\ res.ret = None
                    /\ res.order_request = None
                    /\ res.raised = NoError
                    /\ lastCall.signal.symbol \notin errors
            /\ pc # "aborted"

\* C10: with extended_hours on, a BUY of the aggregator on a symbol that is
\* not held, below the position limit, produces a day limit order to buy.
C10_ExtendedHoursLimitBuy ==
    (/\ Called /\ settings.execution.extended_hours
     /\ lastCall.signal.action = BUY
     /\ lastCall.held = 0
     /\ lastCall.open < settings.execution.max_positions) =>
        LET o == lastCall.res.order_request
        IN  /\ o # None
            /\ o.type = "limit" /\ o.side = BUY
            /\ o.time_in_force = "DAY"
            /\ o.limit_price # Absent
            /\ o.qty = qty_of(notional_of(lastCall.equity,
                                          settings.execution.position_size_pct),
                              o.limit_price)

\* C16: a failure confined to one symbol (no bars, or compute_all, the guard
\* or the submission raising) never ends the cycle before the remaining
\* symbols are evaluated, and the failure is recorded.
C16_SymbolFailureIsolated ==
    /\ pc = "aborted" => idx = 0
    /\ failed \subseteq errors

(* ------------------------------ aggregation ---------------------------- *)
Evaluated == evaluation # None

\* the vote columns of the indicators that are switched on
EnabledColumns(st) ==
    (IF st.rsi.enabled THEN {"rsi_signal"} ELSE {}) \cup
    (IF st.sma.enabled THEN {"sma_signal"} ELSE {}) \cup
    (IF st.macd.enabled THEN {"macd_signal"} ELSE {}) \cup
    (IF st.bollinger.enabled THEN {"bb_signal"} ELSE {})

\* how many enabled indicators vote v in the last row; an empty history
\* has no last row and so no votes
Tally(df, st, v) ==
    IF df.empty THEN 0
    ELSE Cardinality({c \in EnabledColumns(st) : df.latest[c] = v})

\* the same frame with the columns of the disabled indicators blanked
WithoutDisabled(df, st) ==
    [df EXCEPT !.latest = [c \in IndicatorColumns |->
                              IF c \in EnabledColumns(st) THEN df.latest[c]
                              ELSE VoteNone]]

\* C11: strength is max(buy_count, sell_count) / total_enabled when an
\* indicator is enabled and 0 otherwise, so it lies in [0, 1]; the votes of
\* disabled indicators change nothing of the result.
C11_Strength ==
    Evaluated =>
        LET df == evaluation.df
            sig == evaluation.signal
            num == sig.strength[1]
            den == sig.strength[2]
            total == Cardinality(EnabledColumns(settings))
            buy_count == Tally(df, settings, "buy")
            sell_count == Tally(df, settings, "sell")
        IN  /\ den > 0 /\ 0 <= num /\ num <= den
            /\ total > 0 => num * total = Max(buy_count, sell_count) * den
            /\ total = 0 => num = 0
            /\ sig = evaluate_signals(WithoutDisabled(df, settings), sig.symbol, settings)

\* two of three enabled indicators vote buy while the disabled one votes sell
C11_Witness ==
    /\ Evaluated /\ ~evaluation.df.empty
    /\ ~settings.rsi.enabled /\ evaluation.df.latest["rsi_signal"] = "sell"
    /\ Cardinality(EnabledColumns(settings)) = 3
    /\ Tally(evaluation.df, settings, "buy") = 2
    /\ Tally(evaluation.df, settings, "sell") = 0
    /\ evaluation.signal.strength = <<2, 3>>

\* C12: in majority mode the action is buy iff buy_count >= min_agree and
\* buy_count > sell_count, sell iff sell_count >= min_agree and
\* sell_count > buy_count, and hold otherwise; a tie is always hold.
C12_Majority ==
    (Evaluated /\ settings.signal.mode = "majority") =>
        LET action == evaluation.signal.action
            min_agree == settings.signal.min_agree
            buy_count == Tally(evaluation.df, settings, "buy")
            sell_count == Tally(evaluation.df, settings, "sell")
            buys == buy_count >= min_agree /\ buy_count > sell_count
            sells == sell_count >= min_agree /\ sell_count > buy_count
        IN  /\ (action = BUY) <=> buys
            /\ (action = SELL) <=> sells
            /\ (action = HOLD) <=> (~buys /\ ~sells)
            /\ buy_count = sell_count => action = HOLD

\* two buy votes against two sell votes, both reaching min_agree: hold
C12_Witness ==
    /\ Evaluated /\ settings.signal.mode = "majority"
    /\ settings.signal.min_agree = 2
    /\ Tally(evaluation.df, settings, "buy") = 2
    /\ Tally(evaluation.df, settings, "sell") = 2
    /\ evaluation.signal.action = HOLD

\* C13: in unanimous mode, with at least one indicator enabled, the action
\* is buy iff every enabled indicator votes buy, sell iff every enabled
\* indicator votes sell, and hold otherwise; one abstention forces hold.
C13_Unanimous ==
    (/\ Evaluated /\ settings.signal.mode = "unanimous"
     /\ EnabledColumns(settings) # {}) =>
        LET action == evaluation.signal.action
            total == Cardinality(EnabledColumns(settings))
            buy_count == Tally(evaluation.df, settings, "buy")
            sell_count == Tally(evaluation.df, settings, "sell")
        IN  /\ (action = BUY) <=> buy_count = total
            /\ (action = SELL) <=> sell_count = total
            /\ (action = HOLD) <=> (buy_count # total /\ sell_count # total)
            /\ buy_count + sell_count < total => action = HOLD

\* three of four enabled indicators vote buy and the fourth abstains: hold
C13_Witness ==
    /\ Evaluated /\ settings.signal.mode = "unanimous"
    /\ Cardinality(EnabledColumns(settings)) = 4
    /\ Tally(evaluation.df, settings, "buy") = 3
    /\ Tally(evaluation.df, settings, "sell") = 0
    /\ evaluation.signal.action = HOLD

\* C14: in any mode the action is buy iff buy_count > 0 and sell_count = 0,
\* sell iff sell_count > 0 and buy_count = 0, and hold when both counts are
\* positive or both are zero, however lopsided the counts.
C14_Any ==
    (Evaluated /\ settings.signal.mode = "any") =>
        LET action == evaluation.signal.action
            buy_count == Tally(evaluation.df, settings, "buy")
            sell_count == Tally(evaluation.df, settings, "sell")
        IN  /\ (action = BUY) <=> (buy_count > 0 /\ sell_count = 0)
            /\ (action = SELL) <=> (sell_count > 0 /\ buy_count = 0)
            /\ (action = HOLD) <=> \/ (buy_count > 0 /\ sell_count > 0)
                                   \/ (buy_count = 0 /\ sell_count = 0)

\* three buy votes against one sell vote: hold
C14_Witness ==
    /\ Evaluated /\ settings.signal.mode = "any"
    /\ Tally(evaluation.df, settings, "buy") = 3
    /\ Tally(evaluation.df, settings, "sell") = 1
    /\ evaluation.signal.action = HOLD

\* C15: with an empty bar history or with no indicator enabled the result
\* is hold with strength 0 and no tallied votes, under every mode and
\* min_agree.
C15_NothingToTally ==
    (Evaluated /\ (evaluation.df.empty \/ EnabledColumns(settings) = {})) =>
        /\ evaluation.signal.action = HOLD
        /\ evaluation.signal.strength[1] = 0
        /\ DOMAIN evaluation.signal.details = {}

\* an empty history whose frame would read four buy votes, under "any": hold
C15_Witness ==
    /\ Evaluated /\ evaluation.df.empty
    /\ settings.signal.mode = "any"
    /\ Cardinality(EnabledColumns(settings)) = 4
    /\ \A c \in IndicatorColumns : evaluation.df.latest[c] = "buy"
    /\ evaluation.signal.action = HOLD

(* ------------------------------ scheduling ----------------------------- *)
Ran == lastRun # None

\* how often a cycle called f
NumCalls(calls, f) == Cardinality({i \in 1..Len(calls) : calls[i] = f})

\* the market-hours gate of the entry point is switched on
MarketHoursOnly ==
    IF entry = "auto_trader" THEN settings.schedule_market_hours_only
    ELSE settings.schedule.market_hours_only

\* the account was in order and its data source answered
CleanAccount(run) == run.fault = "none" /\ run.fetch_ok

ReportedClosed(ep, env) ==
    IF ep = "auto_trader" THEN
        env.utc < time(13, 30) \/ env.utc > time(21, 0)
    ELSE IF ep = "headless" THEN
        local_now(env) < time(9, 30) \/ local_now(env) > time(16, 0)
    ELSE env.clock = "closed"

C19_GateCoversExtendedSession ==
    (/\ Ran /\ deployment.raw.market_hours_only
     /\ deployment.raw.extended_hours
     /\ InExtendedSession(lastRun.env)
     /\ lastRun.env.clock # "raises"
     /\ lastRun.fault # "no_settings") =>
        lastRun.result.gate = "open"

\* C20: a started scheduler has run one cycle at once and one more at each
\* cadence tick.
C20_ImmediateThenCadence ==
    schedState = "running" => starts = ticks + 1

(* ------------------------------ configuration -------------------------- *)
\* SignalConfig: mode is "majority", "unanimous" or "any"
AggregationModes == {"unanimous", "majority", "any"}

\* C22: a configuration error is fatal at startup; under an aggregation
\* mode outside unanimous, majority and any no symbol is ever evaluated.
C22_ConfigErrorFatal ==
    Evaluated => settings.signal.mode \in AggregationModes

(* ------------------------------ propagation ---------------------------- *)
\* C23: a cycle that fails as a whole (the fetch or the clock query
\* raising) is absorbed at the cycle boundary, the startup cycle included:
\* its exception never leaves the scheduler.
C23_CycleFailureAbsorbed ==
    (Ran /\ lastRun.result.status = "raised") => schedState # "crashed"

(* ------------------------------ operating modes ------------------------ *)
\* the scan command: run_scan(symbols, client, settings, execute=False)
EvaluateOnly == deployment.runner = "run_scan" /\ ~deployment.execute

\* C24: in evaluate-only mode execute_signal is never invoked and no order
\* is submitted, whatever the watchlist and the decisions.
C24_EvaluateOnlyNoOrders ==
    EvaluateOnly =>
        /\ ~Called
        /\ orders = <<>>
        /\ \A s \in Symbols : attempts[s] = 0

\* a scan ended whose last decision was a BUY the guards would have passed
C24_Witness ==
    /\ EvaluateOnly /\ pc = "done"
    /\ Evaluated /\ evaluation.signal.action = BUY
    /\ positions[evaluation.signal.symbol] = 0
    /\ Cardinality(get_positions(positions)) < settings.execution.max_positions

(* ------------------------------ fresh reads ---------------------------- *)
\* the symbols whose order of this cycle was accepted and has filled
FilledThisCycle ==
    {s \in Symbols : /\ attempts[s] > 0 /\ s \notin failed
                     /\ \A i \in 1..Len(orders) : orders[i].symbol # s}

LastOrderFilled == Called /\ Accepted(lastCall.res) /\ orders = <<>>

\* C26: a SELL on a held symbol liquidates the position: whatever the sign
\* of the held quantity, once the order has filled nothing is held.
C26_SellLiquidates ==
    (/\ LastOrderFilled
     /\ lastCall.signal.action = SELL
     /\ lastCall.held # 0) =>
        positions[lastCall.signal.symbol] = 0

\* C27: from an account with at most max_positions open positions, the
\* number of open positions never exceeds max_positions, whatever the
\* decisions and the allow_short setting.
C27_PositionLimit ==
    Cardinality(get_positions(positions)) <= settings.execution.max_positions

\* C27 amended: with allow_short off the number of open positions never
\* exceeds max_positions.
C27_PositionLimitWithoutShorts ==
    ~settings.execution.allow_short =>
        Cardinality(get_positions(positions)) <= settings.execution.max_positions

\* with allow_short off, a BUY was accepted with one place left, it filled
\* and the account now holds exactly max_positions positions
C27_Witness ==
    /\ ~settings.execution.allow_short
    /\ LastOrderFilled /\ lastCall.signal.action = BUY
    /\ lastCall.open + 1 = settings.execution.max_positions
    /\ positions[lastCall.signal.symbol] # 0
    /\ Cardinality(get_positions(positions)) = settings.execution.max_positions

(* ------------------------------ sides of a decision -------------------- *)
\* the same frame with every buy vote turned into a sell vote and back
Exchanged(df) ==
    [df EXCEPT !.latest = [c \in IndicatorColumns |->
                              IF df.latest[c] = "buy" THEN "sell"
                              ELSE IF df.latest[c] = "sell" THEN "buy"
                              ELSE df.latest[c]]]

\* BUY for SELL and SELL for BUY
Opposite(action) ==
    IF action = BUY THEN SELL ELSE IF action = SELL THEN BUY ELSE action

\* C29: under every mode and every min_agree, also 0 and below, a BUY has
\* more buy votes than sell votes and at least one, a SELL the same with
\* the sides exchanged; so a decision that is not hold has strength above
\* 0, and exchanging the buy and sell votes exchanges BUY and SELL and
\* keeps the strength.
C29_DecisionFollowsLargerSide ==
    Evaluated =>
        LET sig == evaluation.signal
            buy_count == Tally(evaluation.df, settings, "buy")
            sell_count == Tally(evaluation.df, settings, "sell")
            other == evaluate_signals(Exchanged(evaluation.df), sig.symbol, settings)
        IN  /\ sig.action = BUY => buy_count > sell_count /\ buy_count >= 1
            /\ sig.action = SELL => sell_count > buy_count /\ sell_count >= 1
            /\ sig.action # HOLD => sig.strength[1] > 0
            /\ other.action = Opposite(sig.action)
            /\ other.strength = sig.strength

\* majority with min_agree at or below 0: one sell vote against none decides
C29_Witness ==
    /\ Evaluated
    /\ settings.signal.mode = "majority" /\ settings.signal.min_agree <= 0
    /\ Tally(evaluation.df, settings, "sell") = 1
    /\ Tally(evaluation.df, settings, "buy") = 0
    /\ Cardinality(EnabledColumns(settings)) = 4
    /\ evaluation.signal.action = SELL

(* ------------------------------ trading switch ------------------------- *)
\* a headless trader started without TRADING_ENABLED=true
TradingDisabled == deployment.runner = "check_signals" /\ ~deployment.execute

\* C30: in a headless trader with trading disabled execute_signal is never
\* invoked and no order is submitted, whatever the decisions; they are only
\* evaluated.
C30_TradingDisabledNoOrders ==
    TradingDisabled =>
        /\ lastCall = None
        /\ Len(orders) = 0
        /\ attempts = ZeroAttempts
        /\ failed = {}

\* a headless cycle with trading disabled ended on a SELL decision for a
\* symbol that is held, which the guards would have let through
C30_Witness ==
    /\ TradingDisabled /\ pc = "done"
    /\ Evaluated /\ evaluation.signal.action = SELL
    /\ positions[evaluation.signal.symbol] # 0

(* ------------------------------ stop and overlap ----------------------- *)
\* the cycles in flight: the initial scan and the running job instances
InFlightCount ==
    (IF InFlight(flight.main) THEN 1 ELSE 0) + Len(flight.workers)

\* C21: once a stop request has been made no new cycle is started, and the
\* cycle in flight when it arrives, the initial scan included, is not cut
\* short.
C21_StopIsCooperative ==
    /\ stopRequest # None => starts = stopRequest.starts
    /\ flight.main.stage # "interrupted"

\* C28: the cycles one TradingScheduler drives never overlap: at most one
\* is in flight, in blocking and in background mode.
C28_NoOverlap ==
    entry \in TradingEntries => InFlightCount <= 1

\* the scheduler of the dashboard is running, a cycle is in flight and a
\* tick that fired meanwhile started no second one
C28_Witness ==
    /\ entry = "dashboard" /\ schedState = "running"
    /\ Len(flight.workers) = 1
    /\ ticks + 1 > starts
    /\ starts > 1

====
